---- MODULE Spec2Model ----
(***************************************************************************)
(* StreamCache (src/src/lib.rs): a map City -> Temperature behind a mutex, *)
(* filled by two tasks spawned at construction: the stream task, which     *)
(* applies every Ok item of api.subscribe() with entry().and_modify()      *)
(* .or_insert(), and the fetch task, which applies the one result of       *)
(* api.fetch() with entry().or_insert() under a single lock.               *)
(***************************************************************************)
EXTENDS Integers, Sequences, FiniteSets, TLC

\* ------------------------------------------------------------- bounds ----

\* Longest stream of the enumerated data sources.
MaxStreamLen == 2

\* ------------------------------------------------------------ values -----

\* Option<u64>: None is the empty sequence, Some(v) the one-element sequence.
None == <<>>
Some(v) == <<v>>

\* City = String: the cities the enumerated data sources and get() use.
Cities == {"Rabat", "Seoul", "London", "Oslo", "Kyoto"}

\* Cities and temperatures of the enumerated (non-scenario) data sources.
GenCities == {"Rabat", "Seoul"}
GenTemps == {31, 32}

\* Temperature = u64: the readings that occur in some data source.
Temperatures == GenTemps \cup {10, 18, 27, 29}

\* Result<(City, Temperature), String>: one item of the stream.
OkItem(city, temp) == [ok |-> TRUE, city |-> city, temp |-> temp]
ErrItem == [ok |-> FALSE, err |-> "stream error"]

\* Result<HashMap<City, Temperature>, String>: the outcome of fetch(); a
\* fetch that never returns is "Pending".
FetchOkOf(data) == [kind |-> "Ok", data |-> data]
FetchErrOf == [kind |-> "Err", err |-> "fetch error"]
FetchPending == [kind |-> "Pending"]

\* HashMap::new(): no city has an entry.
EmptyMap == [c \in Cities |-> None]

\* ------------------------------------------------------ data sources -----

\* An implementation of the Api trait, as the cache sees it: what fetch()
\* resolves to, the items subscribe()'s stream yields, whether the stream
\* then ends (next() = None) or stays pending, whether fetch() waits for a
\* Notify that the stream sends (tests::TestApi), and whether subscribe()
\* returns at all.
Source(fetch, items, ending, gated) ==
    [fetch |-> fetch, items |-> items, ending |-> ending, gated |-> gated,
     subscribes |-> TRUE]

Endings == {"end", "stall"}

\* tests::TestApi.
TestApi ==
    Source(FetchOkOf(("Rabat" :> 29) @@ ("Seoul" :> 31)),
           <<OkItem("London", 27), OkItem("Seoul", 32)>>, "stall", TRUE)

\* The failing-fetch scenario: fetch fails, the stream yields (Oslo, 10).
OsloApis == {Source(FetchErrOf, <<OkItem("Oslo", 10)>>, e, FALSE) : e \in Endings}

\* The error-item scenario: the stream yields an error, then (Kyoto, 18).
KyotoApis ==
    {Source(FetchPending, <<ErrItem, OkItem("Kyoto", 18)>>, e, FALSE) : e \in Endings}

\* Data sources whose subscribe() never returns; fetch succeeds, fails or
\* never returns.
SilentApis ==
    {[Source(f, <<>>, "stall", FALSE) EXCEPT !.subscribes = FALSE] :
        f \in {FetchOkOf(("Rabat" :> 29) @@ ("Seoul" :> 31)), FetchErrOf, FetchPending}}

GenItems == {OkItem(c, t) : c \in GenCities, t \in GenTemps} \cup {ErrItem}

GenStreams == UNION {[1..n -> GenItems] : n \in 0..MaxStreamLen}

GenFetches ==
    {FetchOkOf(d) : d \in UNION {[S -> GenTemps] : S \in SUBSET GenCities}}
        \cup {FetchErrOf, FetchPending}

GenApis == {Source(f, s, e, FALSE) : f \in GenFetches, s \in GenStreams, e \in Endings}

DataSources == {TestApi} \cup OsloApis \cup KyotoApis \cup SilentApis \cup GenApis

\* ------------------------------------------------------------- state -----

VARIABLES
    api,            \* the data source handed to new()
    results,        \* StreamCache.results: the map, City -> Option<u64>
    lock,           \* who holds the mutex: "none", "stream" or "fetch"
    poisoned,       \* the mutex's poison flag
    streamPc,       \* where the stream task is
    idx,            \* how many items the stream task has taken
    update,         \* the item the stream task holds (None between items)
    fetchPc,        \* where the fetch task is
    remaining,      \* the entries of initial_data the for loop has yet to visit
    signal,         \* TestApi.signal: a permit is stored
    fetchCalls,     \* calls of api.fetch()
    subscribeCalls, \* calls of api.subscribe()
    writes,         \* the entry calls made so far, in order: <<task, city, temp>>
    errLog,         \* the lines the fetch task has printed
    got             \* what the last get() call did (None before any call)

vars == <<api, results, lock, poisoned, streamPc, idx, update, fetchPc, remaining,
          signal, fetchCalls, subscribeCalls, writes, errLog, got>>

\* ----------------------------------------------------- the cache's map ---

\* StreamCache::get's lookup: results.get(key).copied().
Lookup(m, key) == m[key]

\* A faulty stream write: the map is replaced by the one entry.
ApplyUpdateReplacesMap(m, city, temp) == [EmptyMap EXCEPT ![city] = Some(temp)]

\* A faulty stream write: entry(city).or_insert(temp), without and_modify.
ApplyUpdateInsertOnly(m, city, temp) ==
    IF m[city] # None THEN m ELSE [m EXCEPT ![city] = Some(temp)]

\* The stream task's write: cache.entry(city).and_modify(|old| *old = temp)
\* .or_insert(temp).
ApplyUpdate(m, city, temp) ==
    IF m[city] # None
        THEN [m EXCEPT ![city] = Some(temp)]    \* and_modify
        ELSE [m EXCEPT ![city] = Some(temp)]    \* or_insert

\* A faulty fetch write: the map is cleared before the insert.
ApplyBulkEntryReplacesMap(m, city, temp) == [EmptyMap EXCEPT ![city] = Some(temp)]

\* A faulty fetch write: cache.insert(city, temp).
ApplyBulkEntryOverwrite(m, city, temp) == [m EXCEPT ![city] = Some(temp)]

\* A faulty fetch write: entry(city).and_modify(..), without or_insert.
ApplyBulkEntryModifyOnly(m, city, temp) ==
    IF m[city] # None THEN [m EXCEPT ![city] = Some(temp)] ELSE m

\* The fetch task's write of one entry: cache.entry(city).or_insert(temp).
ApplyBulkEntry(m, city, temp) ==
    IF m[city] # None THEN m ELSE [m EXCEPT ![city] = Some(temp)]

\* A faulty stream task: its code under the guard panics.
SectionPanicsInStream(holder) == holder = "stream"

\* Whether the code a task runs while it holds the guard can panic: the
\* entry calls of the stream task and the for loop of the fetch task have no
\* panicking path.
CriticalSectionPanics(holder) == FALSE

\* `if let Ok((city, temp)) = update`: whether the stream task writes the item.
IsOkItem(item) == item.ok

\* futures::stream::select polls its two streams round-robin, the left one
\* first: the right stream (which sends the Notify the first time it is
\* polled) is polled on every even poll, and on an odd poll when the left
\* stream yields nothing.
RightPolled(poll, leftYields) == poll % 2 = 0 \/ ~leftYields

\* The domain of a map without one key.
Without(f, k) == [x \in DOMAIN f \ {k} |-> f[x]]

\* -------------------------------------------------------------- Init -----

\* A faulty constructor: it awaits fetch() itself and seeds the map before it
\* returns.
InitAwaitsFetch ==
    /\ api \in DataSources
    /\ api.fetch.kind = "Ok"
    /\ results = [c \in Cities |->
                    IF c \in DOMAIN api.fetch.data THEN Some(api.fetch.data[c]) ELSE None]
    /\ lock = "none"
    /\ poisoned = FALSE
    /\ streamPc = "spawned"
    /\ idx = 0
    /\ update = None
    /\ fetchPc = "done"
    /\ remaining = None
    /\ signal = FALSE
    /\ fetchCalls = 1
    /\ subscribeCalls = 0
    /\ writes = <<>>
    /\ errLog = <<>>
    /\ got = None

\* StreamCache::new: an empty map, both tasks spawned, neither has run.
Init ==
    /\ api \in DataSources
    /\ results = EmptyMap
    /\ lock = "none"
    /\ poisoned = FALSE
    /\ streamPc = "spawned"
    /\ idx = 0
    /\ update = None
    /\ fetchPc = "spawned"
    /\ remaining = None
    /\ signal = FALSE
    /\ fetchCalls = 0
    /\ subscribeCalls = 0
    /\ writes = <<>>
    /\ errLog = <<>>
    /\ got = None

\* ------------------------------------------------------- stream task -----

\* The task starts and calls api_sub.subscribe().
StreamStart ==
    /\ streamPc = "spawned"
    /\ streamPc' = "subscribing"
    /\ subscribeCalls' = subscribeCalls + 1
    /\ UNCHANGED <<api, results, lock, poisoned, idx, update, fetchPc, remaining,
                   signal, fetchCalls, writes, errLog, got>>

\* subscribe().await returns the stream.
StreamSubscribed ==
    /\ streamPc = "subscribing"
    /\ api.subscribes
    /\ streamPc' = "next"
    /\ UNCHANGED <<api, results, lock, poisoned, idx, update, fetchPc, remaining,
                   signal, fetchCalls, subscribeCalls, writes, errLog, got>>

\* A faulty stream: the items come out last first.
StreamNextNewestFirst ==
    /\ streamPc = "next"
    /\ idx < Len(api.items)
    /\ update' = Some(api.items[Len(api.items) - idx])
    /\ idx' = idx + 1
    /\ streamPc' = "item"
    /\ signal' = (signal \/ (api.gated /\ RightPolled(idx + 1, TRUE)))
    /\ UNCHANGED <<api, results, lock, poisoned, fetchPc, remaining,
                   fetchCalls, subscribeCalls, writes, errLog, got>>

\* stream.next().await yields the next item: Some(update).
StreamNext ==
    /\ streamPc = "next"
    /\ idx < Len(api.items)
    /\ update' = Some(api.items[idx + 1])
    /\ idx' = idx + 1
    /\ streamPc' = "item"
    /\ signal' = (signal \/ (api.gated /\ RightPolled(idx + 1, TRUE)))
    /\ UNCHANGED <<api, results, lock, poisoned, fetchPc, remaining,
                   fetchCalls, subscribeCalls, writes, errLog, got>>

\* stream.next().await yields None: the while loop and the task end.
StreamEnd ==
    /\ streamPc = "next"
    /\ idx = Len(api.items)
    /\ api.ending = "end"
    /\ streamPc' = "done"
    /\ UNCHANGED <<api, results, lock, poisoned, idx, update, fetchPc, remaining,
                   signal, fetchCalls, subscribeCalls, writes, errLog, got>>

\* A faulty stream task: a next() that is not ready ends the loop.
StreamStallGivesUp ==
    /\ streamPc = "next"
    /\ idx = Len(api.items)
    /\ api.ending = "stall"
    /\ streamPc' = "done"
    /\ signal' = (signal \/ (api.gated /\ RightPolled(idx + 1, FALSE)))
    /\ UNCHANGED <<api, results, lock, poisoned, idx, update, fetchPc, remaining,
                   fetchCalls, subscribeCalls, writes, errLog, got>>

\* stream.next() is polled and stays pending for ever: the task is suspended
\* in the await, holding nothing.
StreamStall ==
    /\ streamPc = "next"
    /\ idx = Len(api.items)
    /\ api.ending = "stall"
    /\ streamPc' = "stalled"
    /\ signal' = (signal \/ (api.gated /\ RightPolled(idx + 1, FALSE)))
    /\ UNCHANGED <<api, results, lock, poisoned, idx, update, fetchPc, remaining,
                   fetchCalls, subscribeCalls, writes, errLog, got>>

\* A faulty stream task: `while let Some(Ok(..))`, an Err item ends the loop.
StreamSkipEndsLoop ==
    /\ streamPc = "item"
    /\ ~IsOkItem(update[1])
    /\ streamPc' = "done"
    /\ update' = None
    /\ UNCHANGED <<api, results, lock, poisoned, idx, fetchPc, remaining,
                   signal, fetchCalls, subscribeCalls, writes, errLog, got>>

\* The item is not Ok: the body of the if is skipped, the loop goes on.
StreamSkip ==
    /\ streamPc = "item"
    /\ ~IsOkItem(update[1])
    /\ streamPc' = "next"
    /\ update' = None
    /\ UNCHANGED <<api, results, lock, poisoned, idx, fetchPc, remaining,
                   signal, fetchCalls, subscribeCalls, writes, errLog, got>>

\* A faulty stream task: it writes only once the fetch task is done.
StreamLockAfterFetch ==
    /\ streamPc = "item"
    /\ IsOkItem(update[1])
    /\ lock = "none"
    /\ fetchPc = "done"
    /\ streamPc' = "locked"
    /\ lock' = "stream"
    /\ UNCHANGED <<api, results, poisoned, idx, update, fetchPc, remaining,
                   signal, fetchCalls, subscribeCalls, writes, errLog, got>>

\* result.lock().expect("poisoned") in the stream task: waits while the
\* mutex is held, panics when it is poisoned.
StreamLock ==
    /\ streamPc = "item"
    /\ IsOkItem(update[1])
    /\ lock = "none"
    /\ IF poisoned
          THEN /\ streamPc' = "panicked"
               /\ lock' = lock
          ELSE /\ streamPc' = "locked"
               /\ lock' = "stream"
    /\ UNCHANGED <<api, results, poisoned, idx, update, fetchPc, remaining,
                   signal, fetchCalls, subscribeCalls, writes, errLog, got>>

\* A faulty stream task: the guard outlives the if body and is still held
\* when the loop awaits the next item.
StreamApplyKeepsGuard ==
    /\ streamPc = "locked"
    /\ lock = "stream"
    /\ update' = None
    /\ results' = ApplyUpdate(results, update[1].city, update[1].temp)
    /\ writes' = Append(writes, <<"stream", update[1].city, update[1].temp>>)
    /\ streamPc' = "next"
    /\ UNCHANGED <<api, lock, poisoned, idx, fetchPc, remaining, signal, fetchCalls,
                   subscribeCalls, errLog, got>>

\* The entry call, and the guard dropped at the end of the if body.
StreamApply ==
    /\ streamPc = "locked"
    /\ lock = "stream"
    /\ lock' = "none"
    /\ update' = None
    /\ IF CriticalSectionPanics("stream")
          THEN /\ poisoned' = TRUE
               /\ streamPc' = "panicked"
               /\ UNCHANGED <<results, writes>>
          ELSE /\ results' = ApplyUpdate(results, update[1].city, update[1].temp)
               /\ writes' = Append(writes, <<"stream", update[1].city, update[1].temp>>)
               /\ streamPc' = "next"
               /\ UNCHANGED poisoned
    /\ UNCHANGED <<api, idx, fetchPc, remaining, signal, fetchCalls, subscribeCalls,
                   errLog, got>>

\* -------------------------------------------------------- fetch task -----

\* The task starts and calls api_fetch.fetch().
FetchStart ==
    /\ fetchPc = "spawned"
    /\ fetchPc' = "fetching"
    /\ fetchCalls' = fetchCalls + 1
    /\ UNCHANGED <<api, results, lock, poisoned, streamPc, idx, update, remaining,
                   signal, subscribeCalls, writes, errLog, got>>

\* Whether fetch().await can return now: TestApi's fetch first awaits
\* signal.notified(), which takes the stored permit.
FetchReady == api.gated => signal

\* fetch().await returns Ok(initial_data).
FetchOk ==
    /\ fetchPc = "fetching"
    /\ api.fetch.kind = "Ok"
    /\ FetchReady
    /\ fetchPc' = "ok"
    /\ remaining' = Some(api.fetch.data)
    /\ signal' = FALSE
    /\ UNCHANGED <<api, results, lock, poisoned, streamPc, idx, update,
                   fetchCalls, subscribeCalls, writes, errLog, got>>

\* A faulty fetch task: it takes the mutex first and unwraps the Err under it.
FetchErrUnwrapsUnderLock ==
    /\ fetchPc = "fetching"
    /\ api.fetch.kind = "Err"
    /\ FetchReady
    /\ lock = "none"
    /\ fetchPc' = "panicked"
    /\ poisoned' = TRUE
    /\ signal' = FALSE
    /\ UNCHANGED <<api, results, lock, streamPc, idx, update, remaining,
                   fetchCalls, subscribeCalls, writes, errLog, got>>

\* A faulty fetch task: after an Err it prints the message and fetches again.
FetchErrRetries ==
    /\ fetchPc = "fetching"
    /\ api.fetch.kind = "Err"
    /\ FetchReady
    /\ fetchPc' = "spawned"
    /\ errLog' = <<<<"Error fetch(): ", api.fetch.err>>>>
    /\ signal' = FALSE
    /\ UNCHANGED <<api, results, lock, poisoned, streamPc, idx, update, remaining,
                   fetchCalls, subscribeCalls, writes, got>>

\* fetch().await returns Err(err): the message is printed and the task ends.
FetchErr ==
    /\ fetchPc = "fetching"
    /\ api.fetch.kind = "Err"
    /\ FetchReady
    /\ fetchPc' = "done"
    /\ errLog' = Append(errLog, <<"Error fetch(): ", api.fetch.err>>)
    /\ signal' = FALSE
    /\ UNCHANGED <<api, results, lock, poisoned, streamPc, idx, update, remaining,
                   fetchCalls, subscribeCalls, writes, got>>

\* A faulty fetch task: it applies its result only once the stream has
\* delivered an item.
FetchLockAfterFirstItem ==
    /\ fetchPc = "ok"
    /\ lock = "none"
    /\ idx > 0
    /\ fetchPc' = "locked"
    /\ lock' = "fetch"
    /\ UNCHANGED <<api, results, poisoned, streamPc, idx, update, remaining,
                   signal, fetchCalls, subscribeCalls, writes, errLog, got>>

\* result.lock().expect("poisoned") in the fetch task.
FetchLock ==
    /\ fetchPc = "ok"
    /\ lock = "none"
    /\ IF poisoned
          THEN /\ fetchPc' = "panicked"
               /\ lock' = lock
          ELSE /\ fetchPc' = "locked"
               /\ lock' = "fetch"
    /\ UNCHANGED <<api, results, poisoned, streamPc, idx, update, remaining,
                   signal, fetchCalls, subscribeCalls, writes, errLog, got>>

\* A faulty fetch task: it takes the mutex inside the loop, once per entry.
FetchInsertUnlocks ==
    /\ fetchPc = "locked"
    /\ lock = "fetch"
    /\ \E city \in DOMAIN remaining[1] :
          /\ remaining' = Some(Without(remaining[1], city))
          /\ results' = ApplyBulkEntry(results, city, remaining[1][city])
          /\ writes' = Append(writes, <<"fetch", city, remaining[1][city]>>)
    /\ lock' = "none"
    /\ fetchPc' = "ok"
    /\ UNCHANGED <<api, poisoned, streamPc, idx, update, signal, fetchCalls,
                   subscribeCalls, errLog, got>>

\* One turn of `for (city, temp) in initial_data`, in the HashMap's order,
\* which is any order.
FetchInsert ==
    /\ fetchPc = "locked"
    /\ lock = "fetch"
    /\ \E city \in DOMAIN remaining[1] :
          /\ remaining' = Some(Without(remaining[1], city))
          /\ IF CriticalSectionPanics("fetch")
                THEN /\ poisoned' = TRUE
                     /\ fetchPc' = "panicked"
                     /\ lock' = "none"
                     /\ UNCHANGED <<results, writes>>
                ELSE /\ results' = ApplyBulkEntry(results, city, remaining[1][city])
                     /\ writes' = Append(writes, <<"fetch", city, remaining[1][city]>>)
                     /\ UNCHANGED <<poisoned, fetchPc, lock>>
    /\ UNCHANGED <<api, streamPc, idx, update, signal, fetchCalls, subscribeCalls,
                   errLog, got>>

\* The for loop is over: the guard is dropped and the task ends.
FetchUnlock ==
    /\ fetchPc = "locked"
    /\ lock = "fetch"
    /\ DOMAIN remaining[1] = {}
    /\ lock' = "none"
    /\ fetchPc' = "done"
    /\ remaining' = None
    /\ UNCHANGED <<api, results, poisoned, streamPc, idx, update, signal, fetchCalls,
                   subscribeCalls, writes, errLog>>
    /\ UNCHANGED got

\* --------------------------------------------------------------- get -----

\* StreamCache::get: what a call returns in the current state, once it has
\* the mutex: a panic of expect("poisoned"), or the copied entry.
get(key) ==
    IF poisoned
        THEN [panicked |-> TRUE, val |-> None]
        ELSE [panicked |-> FALSE, val |-> Lookup(results, key)]

\* A caller's get(key): it takes the mutex (waiting while a task holds it),
\* looks the key up and drops the guard, with no suspension point between.
Get ==
    /\ lock = "none"
    /\ \E key \in Cities : got' = Some(get(key))
    /\ UNCHANGED <<api, results, lock, poisoned, streamPc, idx, update, fetchPc,
                   remaining, signal, fetchCalls, subscribeCalls, writes,
                   errLog>>

\* -------------------------------------------------------------- Spec -----

Next ==
    \/ StreamStart
    \/ StreamSubscribed
    \/ StreamNext
    \/ StreamEnd
    \/ StreamStall
    \/ StreamSkip
    \/ StreamLock
    \/ StreamApply
    \/ FetchStart
    \/ FetchOk
    \/ FetchErr
    \/ FetchLock
    \/ FetchInsert
    \/ FetchUnlock
    \/ Get

Spec == Init /\ [][Next]_vars

\* The tokio runtime polls every task that can make progress, and a data
\* source delivers what it yields: each step of a producer that stays
\* possible is eventually taken. Callers of get are under no obligation.
StreamTask ==
    \/ StreamStart
    \/ StreamSubscribed
    \/ StreamNext
    \/ StreamEnd
    \/ StreamStall
    \/ StreamSkip
    \/ StreamLock
    \/ StreamApply

FetchTask ==
    \/ FetchStart
    \/ FetchOk
    \/ FetchErr
    \/ FetchLock
    \/ FetchInsert
    \/ FetchUnlock

FairSpec == Spec /\ WF_vars(StreamTask) /\ WF_vars(FetchTask)

\* ----------------------------------------------------------- history -----

\* The positions of the write log at which `task` called entry(city).
WritesOf(task, city) ==
    {i \in 1..Len(writes) : writes[i][1] = task /\ writes[i][2] = city}

Latest(S) == CHOOSE i \in S : \A j \in S : j <= i

\* The value of the stream task's most recent write for city, if any.
StreamValue(city) ==
    IF WritesOf("stream", city) = {}
        THEN None
        ELSE Some(writes[Latest(WritesOf("stream", city))][3])

\* The cities the fetch task's for loop has visited.
bulkSeen == {writes[i][2] : i \in {j \in 1..Len(writes) : writes[j][1] = "fetch"}}

\* The cities of a successful fetch result.
FetchedCities == IF api.fetch.kind = "Ok" THEN DOMAIN api.fetch.data ELSE {}

\* The positions of the Ok items for city in the data source's stream.
ItemsOf(city) ==
    {i \in 1..Len(api.items) : api.items[i].ok /\ api.items[i].city = city}

\* The stream's last Ok value for city, if it has one.
LastItemValue(city) ==
    IF ItemsOf(city) = {} THEN None ELSE Some(api.items[Latest(ItemsOf(city))].temp)

\* The stream task has written every Ok item the stream has for city.
StreamDoneWith(city) ==
    Cardinality(WritesOf("stream", city)) = Cardinality(ItemsOf(city))

\* ------------------------------------------------------------ claims -----

\* C1: in every reachable state and for every city: a city the stream task
\* has written holds the value of its most recent stream write; otherwise a
\* city the fetch task has applied holds the fetched value; otherwise the
\* city is absent and get returns None.
C1_MapReflectsProducers ==
    \A c \in Cities :
        /\ results[c] =
              IF StreamValue(c) # None THEN StreamValue(c)
              ELSE IF c \in bulkSeen THEN Some(api.fetch.data[c])
              ELSE None
        /\ (StreamValue(c) = None /\ c \notin bulkSeen) => get(c).val = None

\* C1's case: one city written by both producers with different values, one
\* written by the fetch task only, one by neither.
C1_Witness ==
    /\ \E c \in Cities :
          /\ StreamValue(c) # None
          /\ c \in bulkSeen
          /\ StreamValue(c) # Some(api.fetch.data[c])
    /\ \E c \in Cities : StreamValue(c) = None /\ c \in bulkSeen
    /\ \E c \in Cities : StreamValue(c) = None /\ c \notin bulkSeen

\* C2: for a city that is both in the fetch result and in the stream, once
\* the fetch task has applied it and the stream task has written the
\* stream's last item for it, get returns the stream's last value, whichever
\* came first.
C2_StreamWinsAnyOrder ==
    \A c \in FetchedCities :
        (ItemsOf(c) # {} /\ c \in bulkSeen /\ StreamDoneWith(c))
            => /\ get(c).val = LastItemValue(c)
               /\ ~get(c).panicked

\* C2's case: the fetch task's write for the city falls between two stream
\* writes for it, and the fetched value differs from the stream's last one.
C2_Witness ==
    \E c \in FetchedCities :
        /\ StreamDoneWith(c)
        /\ Some(api.fetch.data[c]) # LastItemValue(c)
        /\ \E i, k \in WritesOf("stream", c) :
              \E j \in WritesOf("fetch", c) : i < j /\ j < k

\* C3: with tests::TestApi every fair run reaches, and then stays in, a
\* state where get gives Rabat 29, London 27 and Seoul 32.
C3_TestApiSettles ==
    <>[](api = TestApi =>
            /\ get("Rabat") = [panicked |-> FALSE, val |-> Some(29)]
            /\ get("London") = [panicked |-> FALSE, val |-> Some(27)]
            /\ get("Seoul") = [panicked |-> FALSE, val |-> Some(32)])

\* C3's case: TestApi's fetch has been applied after the stream stalled, and
\* a get has returned Seoul's 32.
C3_Witness ==
    /\ api = TestApi
    /\ fetchPc = "done"
    /\ streamPc = "stalled"
    /\ results["Rabat"] = Some(29)
    /\ got = Some([panicked |-> FALSE, val |-> Some(32)])

\* The stream task's writes, in order.
StreamWrites == SelectSeq(writes, LAMBDA w : w[1] = "stream")

\* The writes the stream's Ok items call for, in the stream's order.
OkWrites ==
    LET F[i \in 0..Len(api.items)] ==
            IF i = 0 THEN <<>>
            ELSE IF api.items[i].ok
                THEN Append(F[i - 1], <<"stream", api.items[i].city, api.items[i].temp>>)
                ELSE F[i - 1]
    IN F[Len(api.items)]

\* Every Ok item of the stream has been written.
AllItemsApplied == StreamWrites = OkWrites

\* What get may return: None or Some temperature, and no panic.
GetOutcomes == {[panicked |-> FALSE, val |-> v] : v \in {None} \cup {Some(t) : t \in Temperatures}}

\* C4: get never fails: in every reachable state, whatever the fetch and the
\* stream delivered, no task has panicked, the mutex is not poisoned, and get
\* of any city returns a value or None, never a panic.
C4_GetNeverFails ==
    /\ ~poisoned
    /\ streamPc # "panicked"
    /\ fetchPc # "panicked"
    /\ \A c \in Cities : get(c) \in GetOutcomes
    /\ got # None => got[1] \in GetOutcomes

\* C4's case: the fetch has failed, the stream has yielded an error item and
\* then an Ok item, and a get has returned that item's value.
C4_Witness ==
    /\ errLog # <<>>
    /\ \E i \in 1..Len(api.items) :
          /\ ~api.items[i].ok
          /\ i < idx
          /\ api.items[idx].ok
          /\ streamPc = "next"
          /\ got = Some([panicked |-> FALSE, val |-> Some(api.items[idx].temp)])

\* C5: when fetch fails the fetch task never writes the map, and under fair
\* scheduling every Ok item of the stream still ends up written; with a
\* failing fetch and the stream (Oslo, 10), eventually and for ever get(Oslo)
\* is 10 and every other city is absent.
C5_FetchFailureIsLocal ==
    /\ [](api.fetch.kind = "Err" =>
            /\ bulkSeen = {}
            /\ fetchPc \in {"spawned", "fetching", "done"}
            /\ \A c \in Cities : results[c] = StreamValue(c))
    /\ <>[](api.fetch.kind = "Err" =>
            /\ AllItemsApplied
            /\ \A c \in Cities : get(c) = [panicked |-> FALSE, val |-> LastItemValue(c)])
    /\ <>[](api \in OsloApis =>
            \A c \in Cities :
                get(c).val = IF c = "Oslo" THEN Some(10) ELSE None)

\* C5's case: the fetch has failed and been reported, the stream task has
\* written (Oslo, 10), and a get has returned it.
C5_Witness ==
    /\ api \in OsloApis
    /\ fetchPc = "done"
    /\ Len(errLog) = 1
    /\ results["Oslo"] = Some(10)
    /\ got = Some([panicked |-> FALSE, val |-> Some(10)])

\* C6: the stream task's step on an error item leaves the map as it is and
\* goes on to the next item; under fair scheduling every Ok item of a stream
\* with error items ends up written; with the stream error, (Kyoto, 18),
\* eventually and for ever get(Kyoto) is 18.
C6_ErrorItemSkipped ==
    /\ [][(streamPc = "item" /\ ~update[1].ok /\ streamPc' # "item")
            => (results' = results /\ writes' = writes /\ streamPc' = "next")]_vars
    /\ <>[]((\E i \in 1..Len(api.items) : ~api.items[i].ok) => AllItemsApplied)
    /\ <>[](api \in KyotoApis => get("Kyoto") = [panicked |-> FALSE, val |-> Some(18)])

\* C6's case: the stream task has skipped the error item and written
\* (Kyoto, 18), and a get has returned it.
C6_Witness ==
    /\ api \in KyotoApis
    /\ idx = 2
    /\ results["Kyoto"] = Some(18)
    /\ got = Some([panicked |-> FALSE, val |-> Some(18)])

\* C7: under fair scheduling, a city of a successful fetch result that no Ok
\* item of the stream carries eventually has, and keeps, the fetched value.
C7_BulkOnlyKeysSettle ==
    <>[](\A c \in FetchedCities :
            ItemsOf(c) = {} =>
                get(c) = [panicked |-> FALSE, val |-> Some(api.fetch.data[c])])

\* C7's case: the fetch task is done, a fetched city that the stream does not
\* carry holds the fetched value, and the stream has written another city.
C7_Witness ==
    /\ fetchPc = "done"
    /\ StreamWrites # <<>>
    /\ \E c \in FetchedCities :
          /\ ItemsOf(c) = {}
          /\ results[c] = Some(api.fetch.data[c])
          /\ got = Some([panicked |-> FALSE, val |-> results[c]])

\* C8: under fair scheduling every Ok item of the stream is eventually
\* written, whether or not fetch returns; a city in no fetch result that the
\* stream carries eventually has, and keeps, the stream's last value for it.
C8_StreamKeysSettle ==
    <>[](/\ AllItemsApplied
         /\ \A c \in Cities \ FetchedCities :
                ItemsOf(c) # {} =>
                    get(c) = [panicked |-> FALSE, val |-> LastItemValue(c)])

\* C8's case: fetch never returns, and the stream task has written both of two
\* different values the stream carries for one city.
C8_Witness ==
    /\ api.fetch.kind = "Pending"
    /\ fetchPc = "fetching"
    /\ AllItemsApplied
    /\ \E c \in Cities :
          /\ Cardinality(ItemsOf(c)) = 2
          /\ \E i \in ItemsOf(c) : Some(api.items[i].temp) # LastItemValue(c)
          /\ results[c] = LastItemValue(c)

\* C9: while the fetch task holds the mutex, no step changes the value of a
\* city that is present; a city becomes present only by the for loop
\* visiting it, with the fetched value; and every city the loop visits is
\* present afterwards.
C9_BulkKeepsEntries ==
    [][lock = "fetch" =>
        \A c \in Cities :
            /\ results[c] # None => results'[c] = results[c]
            /\ (results[c] = None /\ results'[c] # None) =>
                  /\ c \in bulkSeen' \ bulkSeen
                  /\ results'[c] = Some(api.fetch.data[c])
            /\ c \in bulkSeen' \ bulkSeen => results'[c] # None]_vars

\* C9's case: the for loop has visited a city the stream task had written
\* before with another value, which is still there, and has added another.
C9_Witness ==
    /\ \E c \in bulkSeen :
          /\ \E i \in WritesOf("stream", c) : \E j \in WritesOf("fetch", c) : i < j
          /\ results[c] # Some(api.fetch.data[c])
          /\ results[c] = StreamValue(c)
    /\ \E c \in bulkSeen : StreamValue(c) = None /\ results[c] = Some(api.fetch.data[c])

\* C10: immediately after the stream task's write of (city, temp) the map
\* holds temp for city, whatever it held before.
C10_UpdateOverwrites ==
    [][(streamPc = "locked" /\ streamPc' # "locked")
        => /\ results'[update[1].city] = Some(update[1].temp)
           /\ ~poisoned'
           /\ lock' = "none"]_vars

\* C10's case: one city was written by the fetch task, then by the stream
\* task with another value, then by the stream task with yet another, and
\* holds the last.
C10_Witness ==
    \E c \in Cities :
        \E i \in WritesOf("fetch", c) : \E j, k \in WritesOf("stream", c) :
            /\ i < j /\ j < k
            /\ writes[i][3] # writes[j][3]
            /\ writes[j][3] # writes[k][3]
            /\ results[c] = Some(writes[k][3])
            /\ streamPc = "next"

\* The stream task is suspended in an await: subscribe().await, or
\* stream.next().await before an item, or for ever after the last one.
StreamSuspended == streamPc \in {"subscribing", "next", "stalled"}

\* The fetch task is suspended in fetch().await.
FetchSuspended == fetchPc = "fetching"

\* C11: a producer suspended in an await does not hold the mutex; whoever
\* holds the mutex can take its next step; so under fair scheduling the mutex
\* is free again and again, and it is free, so that get can run, whenever
\* both producers are suspended.
C11_NoLockAcrossAwait ==
    /\ [](StreamSuspended => lock # "stream")
    /\ [](FetchSuspended => lock # "fetch")
    /\ [](lock = "stream" => ENABLED StreamApply)
    /\ [](lock = "fetch" => ENABLED (FetchInsert \/ FetchUnlock))
    /\ []((StreamSuspended /\ FetchSuspended) => ENABLED Get)
    /\ []<>(ENABLED Get)

\* C11's case: fetch never returns, the stream has stalled for ever after a
\* write, and a get has returned the written value.
C11_Witness ==
    /\ api.fetch.kind = "Pending"
    /\ FetchSuspended
    /\ streamPc = "stalled"
    /\ lock = "none"
    /\ writes # <<>>
    /\ got = Some([panicked |-> FALSE, val |-> Some(writes[Len(writes)][3])])

\* C12: api.fetch() and api.subscribe() are each called at most once, and
\* exactly once by the time the task has started; under fair scheduling both
\* have been called once from some point on; a task that has ended stays
\* ended, whatever its data source delivered.
C12_CalledOnce ==
    /\ [](fetchCalls <= 1 /\ subscribeCalls <= 1)
    /\ [](fetchCalls = (IF fetchPc = "spawned" THEN 0 ELSE 1))
    /\ [](subscribeCalls = (IF streamPc = "spawned" THEN 0 ELSE 1))
    /\ <>[](fetchCalls = 1 /\ subscribeCalls = 1)
    /\ [][/\ fetchPc = "done" => fetchPc' = "done"
          /\ streamPc = "done" => streamPc' = "done"]_vars

\* C12's case: the fetch has failed, the stream has yielded an error item and
\* has ended, and each of fetch and subscribe has been called once.
C12_Witness ==
    /\ Len(errLog) = 1
    /\ fetchPc = "done"
    /\ streamPc = "done"
    /\ \E i \in 1..Len(api.items) : ~api.items[i].ok
    /\ fetchCalls = 1
    /\ subscribeCalls = 1

\* What get returns for a city that has no entry.
Absent == [panicked |-> FALSE, val |-> None]

\* C13: as long as neither task has started, the map is empty, the mutex is
\* free, so that get can run, and neither fetch nor subscribe has been
\* called; and as long as no producer has written, get of every city returns
\* None, and so did every get so far.
C13_ConstructionDoesNotWait ==
    /\ (streamPc = "spawned" /\ fetchPc = "spawned") =>
          /\ results = EmptyMap
          /\ lock = "none"
          /\ fetchCalls = 0
          /\ subscribeCalls = 0
          /\ ENABLED Get
    /\ writes = <<>> =>
          /\ \A c \in Cities : get(c) = Absent
          /\ got # None => got[1] = Absent

\* C13's case: fetch never returns and subscribe never returns, both tasks
\* are suspended in their first await, and a get has returned None.
C13_Witness ==
    /\ api.fetch.kind = "Pending"
    /\ ~api.subscribes
    /\ fetchPc = "fetching"
    /\ streamPc = "subscribing"
    /\ results = EmptyMap
    /\ got = Some(Absent)

\* The writes the first n items of the stream call for, in the stream's order.
OkWritesUpTo(n) ==
    LET F[i \in 0..n] ==
            IF i = 0 THEN <<>>
            ELSE IF api.items[i].ok
                THEN Append(F[i - 1], <<"stream", api.items[i].city, api.items[i].temp>>)
                ELSE F[i - 1]
    IN F[n]

\* The items the stream task has finished with: all it has taken, but the
\* one it holds.
ItemsHandled == IF streamPc \in {"item", "locked"} THEN idx - 1 ELSE idx

\* C14: the stream task's writes are, in order, the Ok items among the items
\* it has finished with; it asks the stream for an item only when it holds
\* none and has written every Ok item before; and get of a city the stream
\* task has written returns its latest write, never an earlier one.
C14_StreamOrder ==
    /\ [](StreamWrites = OkWritesUpTo(ItemsHandled))
    /\ [][idx' # idx => (update = None /\ StreamWrites = OkWritesUpTo(idx))]_vars
    /\ [](\A c \in Cities : StreamValue(c) # None => get(c).val = StreamValue(c))

\* C14's case: the stream yielded two different values for one city, the
\* stream task has written both, and a get has returned the second.
C14_Witness ==
    /\ Len(StreamWrites) = 2
    /\ StreamWrites[1][2] = StreamWrites[2][2]
    /\ StreamWrites[1][3] # StreamWrites[2][3]
    /\ StreamWrites = OkWrites
    /\ got = Some([panicked |-> FALSE, val |-> Some(StreamWrites[2][3])])

\* C15: under fair scheduling the stream task writes every Ok item of a
\* stream it obtains, whatever fetch does, and the fetch task applies every
\* entry of a successful fetch result, whatever subscribe and the stream do;
\* a task's next step waits for nothing but the mutex: it is possible in
\* every state of the other task, except that taking the mutex is possible
\* exactly when the mutex is free.
C15_ProducersIndependent ==
    /\ <>[](api.subscribes => AllItemsApplied)
    /\ <>[](api.fetch.kind = "Ok" => (fetchPc = "done" /\ FetchedCities \subseteq bulkSeen))
    /\ [](streamPc \in {"spawned", "next", "locked"} => ENABLED StreamTask)
    /\ [](streamPc = "item" => (ENABLED StreamTask <=> (~update[1].ok \/ lock = "none")))
    /\ [](fetchPc \in {"spawned", "locked"} => ENABLED FetchTask)
    /\ [](fetchPc = "ok" => (ENABLED FetchTask <=> lock = "none"))

\* C15's case: subscribe never returns, the stream task is suspended in it,
\* and the fetch task has applied its result and ended.
C15_Witness ==
    /\ ~api.subscribes
    /\ streamPc = "subscribing"
    /\ fetchPc = "done"
    /\ FetchedCities # {}
    /\ \A c \in FetchedCities : results[c] = Some(api.fetch.data[c])

\* The fetch task's writes, in order.
FetchWrites == SelectSeq(writes, LAMBDA w : w[1] = "fetch")

\* C16: each task holds the mutex for a single map mutation: while the
\* stream task holds it, it has yet to make its one write, and while the
\* fetch task holds it, it has made at most one insert, so that the mutex is
\* free between any two mutations.
C16_LockReleasedBetweenMutations ==
    /\ lock = "stream" => (streamPc = "locked" /\ update # None)
    /\ lock = "fetch" => Len(FetchWrites) <= 1

\* C17: under fair scheduling the fetch task ends once fetch has returned; it
\* takes the mutex at most once, only after an Ok, and ends when it drops
\* it; an ended task stays ended and writes no more; the stream task ends
\* once its stream is exhausted; with a stream that stays pending it never
\* ends, and rests for ever in next().await without the mutex.
C17_ProducerTermination ==
    /\ <>[](api.fetch.kind \in {"Ok", "Err"} => fetchPc = "done")
    /\ [](api.fetch.kind # "Ok" => lock # "fetch")
    /\ [][/\ (lock # "fetch" /\ lock' = "fetch") => (fetchPc = "ok" /\ FetchWrites = <<>>)
          /\ (lock = "fetch" /\ lock' # "fetch") => fetchPc' = "done"
          /\ fetchPc = "done" => (fetchPc' = "done" /\ FetchWrites' = FetchWrites)
          /\ streamPc = "done" => (streamPc' = "done" /\ StreamWrites' = StreamWrites)]_vars
    /\ <>[]((api.subscribes /\ api.ending = "end") => streamPc = "done")
    /\ [](api.ending = "stall" => streamPc # "done")
    /\ <>[]((api.subscribes /\ api.ending = "stall") =>
                (streamPc = "stalled" /\ lock # "stream"))

\* C17's case: the stream is exhausted and the stream task has ended after a
\* write; the fetch task has ended after one critical section with two
\* inserts.
C17_Witness ==
    /\ streamPc = "done"
    /\ StreamWrites # <<>>
    /\ fetchPc = "done"
    /\ Len(FetchWrites) = 2
    /\ lock = "none"

\* C18: while the fetch task holds the mutex no get can run and the stream
\* task can neither take the mutex nor write, and no step changes what get
\* last returned or what the stream task has written; whenever the mutex is
\* free, the fetch task has inserted nothing yet or has visited every
\* fetched city, each of which then has an entry.
C18_BulkApplyAtomic ==
    /\ [](lock = "fetch" =>
            (~ENABLED Get /\ ~ENABLED StreamLock /\ ~ENABLED StreamApply))
    /\ [][lock = "fetch" => (got' = got /\ StreamWrites' = StreamWrites)]_vars
    /\ [](lock = "none" =>
            \/ FetchWrites = <<>>
            \/ /\ bulkSeen = FetchedCities
               /\ \A c \in FetchedCities : results[c] # None)

\* C18's case: the fetch task holds the mutex with one of its two entries
\* inserted, and the stream task holds an Ok item and waits for the mutex.
C18_Witness ==
    /\ lock = "fetch"
    /\ Len(FetchWrites) = 1
    /\ Cardinality(FetchedCities) = 2
    /\ streamPc = "item"
    /\ update[1].ok

\* C19: no step removes an entry: a city that has a value before a step has
\* one after it, so the set of cities for which get returns a value only
\* grows.
C19_EntriesNeverRemoved ==
    [][/\ \A c \in Cities : results[c] # None => results'[c] # None
       /\ {c \in Cities : get(c).val # None} \subseteq {c \in Cities : results'[c] # None}]_vars

\* C19's case: both producers have written, three writes over two cities,
\* and every city written still has an entry, which a get has returned.
C19_Witness ==
    /\ Len(writes) = 3
    /\ StreamWrites # <<>>
    /\ FetchWrites # <<>>
    /\ Cardinality({writes[i][2] : i \in 1..3}) = 2
    /\ \A i \in 1..3 : results[writes[i][2]] # None
    /\ got = Some([panicked |-> FALSE, val |-> results[writes[1][2]]])

\* C20: the stream task's write of (city, temp) leaves every other city as it
\* was, present or absent; and a step in which get returns changes neither
\* the map nor anything else of the cache.
C20_UpdateTouchesOneKey ==
    /\ [][(streamPc = "locked" /\ streamPc' # "locked") =>
            \A c \in Cities \ {update[1].city} : results'[c] = results[c]]_vars
    /\ [][got' # got =>
            (results' = results /\ writes' = writes /\ poisoned' = poisoned
                /\ lock' = lock)]_vars

\* C20's case: the stream task's write is the latest, another city has the
\* entry the fetch task gave it, and a get has returned that entry.
C20_Witness ==
    /\ writes # <<>>
    /\ writes[Len(writes)][1] = "stream"
    /\ streamPc = "next"
    /\ \E c \in bulkSeen :
          /\ c # writes[Len(writes)][2]
          /\ StreamValue(c) = None
          /\ results[c] = Some(api.fetch.data[c])
          /\ got = Some([panicked |-> FALSE, val |-> results[c]])

====
